---- MODULE Spec2Model ----
(***************************************************************************)
(* Model of filepilot's edit-instruction protocol: the patch applier       *)
(* (ChangeManager.apply_edit_instructions_to_content) and the instruction  *)
(* parser (ChangeManager.parse_edit_instructions).                         *)
(*                                                                         *)
(* A Python str is a sequence of one-character strings.  A value that is   *)
(* not a str (None) is the one-element sequence None, whose element is no  *)
(* character of any text.                                                  *)
(***************************************************************************)
EXTENDS Integers, Sequences, FiniteSets, TLC

\* ------------------------------------------------------------------ bounds

\* Longest file content the applier is run on.
MaxContentLen == 4

\* Longest instruction list the applier is run on.
MaxOps == 2

\* Most change entries in a response.
MaxEntries == 3

\* Most lines of a buffer that line-numbered operations are applied to.
MaxLines == 3

\* ------------------------------------------------------------------ str

NL == "\n"

None == <<"None">>

IsStr(s) == s # None

Max(a, b) == IF a >= b THEN a ELSE b

Min(a, b) == IF a <= b THEN a ELSE b

RECURSIVE RStripNL(_)
\* str.rstrip('\n')
RStripNL(s) ==
    IF s # <<>> /\ s[Len(s)] = NL
    THEN RStripNL(SubSeq(s, 1, Len(s) - 1))
    ELSE s

RECURSIVE Split(_)
\* str.split('\n'): always at least one piece
Split(s) ==
    IF \A k \in 1..Len(s) : s[k] # NL
    THEN << s >>
    ELSE LET i == CHOOSE k \in 1..Len(s) :
                      s[k] = NL /\ \A j \in 1..(k - 1) : s[j] # NL
         IN  << SubSeq(s, 1, i - 1) >> \o Split(SubSeq(s, i + 1, Len(s)))

RECURSIVE Join(_)
\* '\n'.join(lines)
Join(ls) ==
    IF ls = <<>> THEN <<>>
    ELSE IF Len(ls) = 1 THEN ls[1]
    ELSE ls[1] \o << NL >> \o Join(Tail(ls))

\* text in line, for two strs
Contains(text, line) ==
    \E p \in 0..(Len(line) - Len(text)) :
        SubSeq(line, p + 1, p + Len(text)) = text

RECURSIVE Interleave(_, _)
Interleave(s, new) ==
    IF s = <<>> THEN new
    ELSE new \o << s[1] >> \o Interleave(Tail(s), new)

RECURSIVE ReplaceScan(_, _, _)
ReplaceScan(s, text, new) ==
    IF Len(s) < Len(text) THEN s
    ELSE IF SubSeq(s, 1, Len(text)) = text
    THEN new \o ReplaceScan(SubSeq(s, Len(text) + 1, Len(s)), text, new)
    ELSE << s[1] >> \o ReplaceScan(Tail(s), text, new)

\* line.replace(text, new): every non-overlapping occurrence, left to right;
\* an empty text matches before every character and at the end.
StrReplace(line, text, new) ==
    IF text = <<>> THEN Interleave(line, new)
    ELSE ReplaceScan(line, text, new)

\* ------------------------------------------------------------------ state

VARIABLES
    pc,            \* position in the function being run
    content,       \* apply_edit_instructions_to_content: the content argument
    instructions,  \* the applier's instructions iterated so far, in list
                   \* order; the list the parser is building
    lines,         \* the applier's line buffer
    warnings,      \* number of warnings printed by the except branch
    result,        \* the returned text
    response,      \* parse_edit_instructions: the response argument
    entries,       \* the change entries the response was written from
    modifications_content,  \* the text between the modifications tags
    scan_pos,      \* where re.finditer looks for the next change entry
    text1,         \* get_changes: the before text
    text2,         \* get_changes: the after text
    opcodes,       \* the opcodes the loop of get_changes has yet to visit
    changes,       \* the change records
    last_line,     \* get_changes: last_line
    table,         \* the rows visualize_diff added to its table
    diff_count,    \* what show_diff returned to its caller
    command,       \* the change command that runs: cli/change.py or filepilot.py
    diff,          \* the --diff option
    original_file, \* the content of the file named on the command line
    preview_file,  \* the content of the preview file, None when there is none
    console,       \* what the command has printed, in order
    answer,        \* the user's answer to Confirm.ask
    copied,        \* shutil.copy2(preview_file, original_file) has run
    exit_status    \* the exit status of the command

applyVars == << content, lines, warnings, result >>

parseVars == << response, entries, modifications_content, scan_pos >>

\* The diff step: the two texts, the opcodes still to visit, the change
\* records, last_line, the rendered table and what the step returns.
diffVars == << text1, text2, opcodes, changes, last_line, table, diff_count >>

\* The change command.
cmdVars == << command, diff, original_file, preview_file, console, answer,
              copied, exit_status >>

vars == << pc, instructions, applyVars, parseVars, diffVars, cmdVars >>

\* A function that has not returned, and Python's None as a returned value.
NotReturned == [ type |-> "unset" ]

NoneValue == [ type |-> "NoneType" ]

\* The diff step before it is called.
DiffIdle ==
    /\ text1 = <<>>
    /\ text2 = <<>>
    /\ opcodes = <<>>
    /\ changes = <<>>
    /\ last_line = -1
    /\ table = <<>>
    /\ diff_count = NotReturned

\* No change command runs.
CmdIdle ==
    /\ command = "none"
    /\ diff = FALSE
    /\ original_file = <<>>
    /\ preview_file = None
    /\ console = <<>>
    /\ answer = "not_asked"
    /\ copied = FALSE
    /\ exit_status = -1

\* ------------------------------------------------------------------ applier

Alphabet == {"a", "x", NL}

RECURSIVE StringsUpTo(_)
StringsUpTo(n) ==
    IF n = 0 THEN { <<>> }
    ELSE LET shorter == StringsUpTo(n - 1)
         IN  shorter \cup { Append(s, c) : s \in shorter, c \in Alphabet }

Contents == StringsUpTo(MaxContentLen)

\* dict.get(key, default)
Get(instr, key, default) ==
    IF key \in DOMAIN instr THEN instr[key] ELSE default

\* The anchors and contents the instructions are drawn from: a one-character
\* and a two-character anchor, an empty content and a two-line content that
\* contains an anchor and ends with a newline, and None for a value that is
\* no str.
Anchors == { None, << "x" >>, << "a", "x" >> }

TwoLines == << "a", NL, "x", NL >>

AnchoredContents ==
    { << << "x" >>, TwoLines >>, << << "a", "x" >>, <<>> >>,
      << << "x" >>, None >>, << None, TwoLines >> }

\* The instruction dicts: a remove without a content key, inserts and
\* replaces as the parser builds them, and a line-numbered delete, which
\* carries neither text nor content.
OpSet ==
    { [action |-> "remove", text |-> t] : t \in Anchors }
    \cup { [action |-> a, text |-> tc[1], content |-> tc[2]] :
             a \in {"insert", "replace"}, tc \in AnchoredContents }
    \cup { [action |-> "delete", line |-> 2] }

RECURSIVE RemoveFirstMatch(_, _)
\* A remove that deletes only the first matching line.
RemoveFirstMatch(ls, text) ==
    IF ls = <<>> THEN <<>>
    ELSE IF Contains(text, ls[1]) THEN Tail(ls)
    ELSE << ls[1] >> \o RemoveFirstMatch(Tail(ls), text)

\* lines = [line for line in lines if text not in line]
RemoveLines(ls, text) ==
    SelectSeq(ls, LAMBDA line : ~Contains(text, line))

\* An insert that appends the content when no line contains the anchor.
InsertOrAppend(ls, i, text, new_lines) ==
    IF \A k \in 1..Len(ls) : ~Contains(text, ls[k])
    THEN ls \o new_lines
    ELSE LET j == CHOOSE k \in 1..Len(ls) :
                      Contains(text, ls[k]) /\ \A h \in 1..(k - 1) : ~Contains(text, ls[h])
         IN  SubSeq(ls, 1, j) \o new_lines \o SubSeq(ls, j + 1, Len(ls))

RECURSIVE InsertScan(_, _, _, _)
\* for i, line in enumerate(lines): if text in line: splice after i; break
InsertScan(ls, i, text, new_lines) ==
    IF i > Len(ls) THEN ls
    ELSE IF Contains(text, ls[i])
    THEN SubSeq(ls, 1, i) \o new_lines \o SubSeq(ls, i + 1, Len(ls))
    ELSE InsertScan(ls, i + 1, text, new_lines)

\* An insert without the break: the content goes after every matching line.
InsertAfterEveryMatch(ls, text, new_lines) ==
    LET RECURSIVE Go(_)
        Go(rest) ==
            IF rest = <<>> THEN <<>>
            ELSE IF Contains(text, rest[1])
            THEN << rest[1] >> \o new_lines \o Go(Tail(rest))
            ELSE << rest[1] >> \o Go(Tail(rest))
    IN  Go(ls)

InsertLines(ls, text, new_lines) == InsertScan(ls, 1, text, new_lines)

\* A replace that overwrites the whole matching line with the new content.
ReplaceWholeLine(ls, text, new_lines) ==
    [ k \in 1..Len(ls) |->
        IF Contains(text, ls[k]) THEN Join(new_lines) ELSE ls[k] ]

\* lines = [line.replace(text, '\n'.join(new_lines)) if text in line else line ...]
ReplaceLines(ls, text, new_lines) ==
    [ k \in 1..Len(ls) |->
        IF Contains(text, ls[k])
        THEN StrReplace(ls[k], text, Join(new_lines))
        ELSE ls[k] ]

\* instr.get('content', '').rstrip('\n').split('\n')
NewLines(instr) == Split(RStripNL(Get(instr, "content", <<>>)))

\* The exception the body of the try block raises, "none" when it raises
\* none: .rstrip on a content that is no str is an AttributeError; "text in
\* line" with a text that is no str is a TypeError, and is evaluated only when
\* the buffer has a line.
Raised(ls, instr) ==
    LET action == Get(instr, "action", None)
        text   == Get(instr, "text", None)
    IN  IF action \in {"insert", "replace"} /\ ~IsStr(Get(instr, "content", <<>>))
        THEN "AttributeError"
        ELSE IF action \in {"remove", "insert", "replace"} /\ ~IsStr(text) /\ ls # <<>>
        THEN "TypeError"
        ELSE "none"

\* A handler that catches the TypeError only.
CaughtTypeErrorOnly(exc) == exc = "TypeError"

\* except Exception
Caught(exc) == exc \in {"AttributeError", "TypeError"}

\* One iteration of the for loop that raises nothing: the buffer after it.
ApplyInstr(ls, instr) ==
    LET action == Get(instr, "action", None)
        text   == Get(instr, "text", None)
    IN  IF Raised(ls, instr) # "none" THEN ls
        ELSE IF action = "remove" THEN RemoveLines(ls, text)
        ELSE IF action = "insert" THEN InsertLines(ls, text, NewLines(instr))
        ELSE IF action = "replace" THEN ReplaceLines(ls, text, NewLines(instr))
        ELSE ls

\* A load that does not strip the trailing newlines.
LoadLinesUnstripped(c) == Split(c)

\* lines = content.rstrip('\n').split('\n')
LoadLines(c) == Split(RStripNL(c))

\* return '\n'.join(lines) + '\n'
SaveLines(ls) == Join(ls) \o << NL >>

InitApply ==
    /\ pc = "start"
    /\ content \in Contents
    /\ instructions = <<>>
    /\ lines = <<>>
    /\ warnings = 0
    /\ result = None
    /\ DiffIdle
    /\ CmdIdle
    /\ response = <<>>
    /\ entries = <<>>
    /\ modifications_content = <<>>
    /\ scan_pos = 0

Load ==
    /\ pc = "start"
    /\ pc' = "loop"
    /\ lines' = LoadLines(content)
    /\ UNCHANGED << content, instructions, warnings, result, parseVars, diffVars, cmdVars >>

\* One iteration of the for loop.  Every branch assigns lines once, at its
\* end, so an exception leaves the buffer as it was; a caught one prints a
\* warning and continues, any other leaves the function.
Iterate(instr) ==
    /\ pc = "loop"
    /\ Len(instructions) < MaxOps
    /\ instructions' = Append(instructions, instr)
    /\ LET exc == Raised(lines, instr)
       IN  IF exc = "none"
           THEN /\ lines' = ApplyInstr(lines, instr)
                /\ UNCHANGED << pc, warnings >>
           ELSE IF Caught(exc)
           THEN /\ warnings' = warnings + 1
                /\ UNCHANGED << pc, lines >>
           ELSE /\ pc' = "raised"
                /\ UNCHANGED << lines, warnings >>
    /\ UNCHANGED << content, result, parseVars, diffVars, cmdVars >>

Return ==
    /\ pc = "loop"
    /\ pc' = "done"
    /\ result' = SaveLines(lines)
    /\ UNCHANGED << content, instructions, lines, warnings, parseVars, diffVars, cmdVars >>

NextApply ==
    \/ Load
    \/ \E instr \in OpSet : Iterate(instr)
    \/ Return

Spec == InitApply /\ [][NextApply]_vars

\* ------------------------------------------------------------------ claims: applier

\* The buffer the applier starts from, and the single instruction of a
\* one-instruction run.
Buffer == LoadLines(content)

Ran == pc \in {"loop", "done"}

SingleOp(action) ==
    /\ Ran
    /\ Len(instructions) = 1
    /\ Get(instructions[1], "action", None) = action
    /\ IsStr(Get(instructions[1], "text", None))
    /\ IsStr(Get(instructions[1], "content", <<>>))

Anchor == Get(instructions[1], "text", None)

Matching(ls, text) == { k \in 1..Len(ls) : Contains(text, ls[k]) }

\* The subsequence of ls at the indices keep, in ascending index order.
Selection(ls, keep) ==
    [ r \in 1..Cardinality(keep) |->
        ls[CHOOSE k \in keep : Cardinality({ j \in keep : j <= k }) = r] ]

\* C1: after a single remove with a non-empty anchor the buffer is exactly the
\* lines that do not contain the anchor, in their original order, and the
\* returned text is those lines joined by newlines, with one newline appended.
C1_RemoveDeletesEveryMatch ==
    (SingleOp("remove") /\ Anchor # <<>>) =>
        LET kept == Selection(Buffer, (1..Len(Buffer)) \ Matching(Buffer, Anchor))
        IN  /\ lines = kept
            /\ pc = "done" => result = Join(kept) \o << NL >>

C1_Witness ==
    /\ SingleOp("remove")
    /\ pc = "done"
    /\ Cardinality(Matching(Buffer, Anchor)) >= 2
    /\ Len(lines) >= 1
    /\ Len(lines) < Len(Buffer)

\* C2: after a single insert whose anchor some line contains, the content
\* lines stand, in order, right after the first line containing the anchor
\* and nowhere else: the lines up to and including that one, and the lines
\* after it, are the original ones in their order.
C2_InsertAfterFirstMatch ==
    (SingleOp("insert") /\ Matching(Buffer, Anchor) # {}) =>
        LET i   == CHOOSE k \in Matching(Buffer, Anchor) :
                       \A j \in Matching(Buffer, Anchor) : k <= j
            new == NewLines(instructions[1])
        IN  /\ Len(lines) = Len(Buffer) + Len(new)
            /\ \A k \in 1..i : lines[k] = Buffer[k]
            /\ \A k \in 1..Len(new) : lines[i + k] = new[k]
            /\ \A k \in (i + 1)..Len(Buffer) : lines[k + Len(new)] = Buffer[k]
            /\ pc = "done" => result = Join(lines) \o << NL >>

C2_Witness ==
    /\ SingleOp("insert")
    /\ pc = "done"
    /\ Cardinality(Matching(Buffer, Anchor)) >= 2
    /\ Len(NewLines(instructions[1])) = 2
    /\ Len(lines) = Len(Buffer) + 2

\* The occurrences of text that str.replace rewrites: an occurrence is taken
\* unless it overlaps a taken one that starts before it.
Occurrences(line, text) ==
    { p \in 1..(Len(line) - Len(text) + 1) :
        SubSeq(line, p, p + Len(text) - 1) = text }

Taken(line, text) ==
    CHOOSE C \in SUBSET Occurrences(line, text) :
        \A p \in Occurrences(line, text) :
            p \in C <=> ~(\E c \in C : c < p /\ p < c + Len(text))

RECURSIVE Flatten(_)
Flatten(pieces) ==
    IF pieces = <<>> THEN <<>> ELSE pieces[1] \o Flatten(Tail(pieces))

\* line with every taken occurrence of text replaced by new and every other
\* character kept.
Substituted(line, text, new) ==
    LET C == Taken(line, text)
    IN  Flatten([ k \in 1..Len(line) |->
            IF k \in C THEN new
            ELSE IF \E c \in C : c < k /\ k < c + Len(text) THEN <<>>
            ELSE << line[k] >> ])

\* C3: after a single replace, every line that contains the anchor has the
\* anchor substituted by the joined new content with the rest of the line
\* kept, and every other line is unchanged and in place.
C3_ReplaceSubstitutesAnchor ==
    (SingleOp("replace") /\ Anchor # <<>>) =>
        LET new == Join(NewLines(instructions[1]))
        IN  /\ Len(lines) = Len(Buffer)
            /\ \A k \in 1..Len(Buffer) :
                   lines[k] = IF k \in Matching(Buffer, Anchor)
                              THEN Substituted(Buffer[k], Anchor, new)
                              ELSE Buffer[k]

C3_Witness ==
    /\ SingleOp("replace")
    /\ pc = "done"
    /\ Anchor = << "x" >>
    /\ NewLines(instructions[1]) = << << "a" >>, << "x" >> >>
    /\ \E k \in 1..Len(Buffer) :
           /\ Cardinality(Occurrences(Buffer[k], Anchor)) >= 2
           /\ Len(Buffer[k]) >= 3
    /\ \E k \in 1..Len(Buffer) : k \notin Matching(Buffer, Anchor)

\* C4: the returned text ends with exactly one newline.
C4_ExactlyOneTrailingNewline ==
    pc = "done" =>
        /\ Len(result) >= 1
        /\ result[Len(result)] = NL
        /\ ~(Len(result) >= 2 /\ result[Len(result) - 1] = NL)

\* C5: with no instruction the returned text is the content with its trailing
\* newlines replaced by a single one, so it has the lines of the content.
C5_EmptyListRoundTrip ==
    (pc = "done" /\ instructions = <<>>) =>
        /\ \E n \in 0..Len(content) :
               LET body == SubSeq(content, 1, Len(content) - n)
               IN  /\ \A k \in (Len(content) - n + 1)..Len(content) : content[k] = NL
                   /\ body = <<>> \/ body[Len(body)] # NL
                   /\ result = body \o << NL >>
        /\ LoadLines(result) = Buffer

C5_Witness ==
    /\ pc = "done"
    /\ instructions = <<>>
    /\ Len(content) >= 3
    /\ content[Len(content)] = NL
    /\ content[Len(content) - 1] = NL
    /\ content[1] # NL
    /\ warnings = 0

RECURSIVE ApplyAll(_, _)
\* The buffer after the instructions ops, applied in order to the buffer ls.
ApplyAll(ls, ops) ==
    IF ops = <<>> THEN ls
    ELSE ApplyAll(ApplyInstr(ls, ops[1]), Tail(ops))

\* An operation whose processing throws: its anchor or, for insert and
\* replace, its content is not a string.
BadOperation(instr) ==
    /\ Get(instr, "action", None) \in {"remove", "insert", "replace"}
    /\ \/ ~IsStr(Get(instr, "text", None))
       \/ /\ Get(instr, "action", None) \in {"insert", "replace"}
          /\ ~IsStr(Get(instr, "content", <<>>))

\* C7: the call never raises because of a bad operation; the bad operations
\* are skipped and every other operation, also a later one, is applied: the
\* buffer and the returned text are those of the list without the bad
\* operations.
C7_BadOperationSkipped ==
    /\ pc # "raised"
    /\ Ran =>
        LET good == SelectSeq(instructions, LAMBDA instr : ~BadOperation(instr))
        IN  /\ lines = ApplyAll(Buffer, good)
            /\ pc = "done" => result = SaveLines(lines)

C7_Witness ==
    /\ pc = "done"
    /\ Len(instructions) = 2
    /\ BadOperation(instructions[1])
    /\ ~BadOperation(instructions[2])
    /\ warnings = 1
    /\ lines # Buffer
    /\ result = SaveLines(ApplyInstr(Buffer, instructions[2]))

\* An operation whose anchor is a string that no line of the buffer ls contains.
Unresolved(ls, instr) ==
    /\ Get(instr, "action", None) \in {"remove", "insert", "replace"}
    /\ IsStr(Get(instr, "text", None))
    /\ Matching(ls, Get(instr, "text", None)) = {}

RECURSIVE ApplyResolved(_, _)
\* The buffer after the operations ops, applied in order to the buffer ls
\* without those that are unresolved at their turn.
ApplyResolved(ls, ops) ==
    IF ops = <<>> THEN ls
    ELSE IF Unresolved(ls, ops[1]) THEN ApplyResolved(ls, Tail(ops))
    ELSE ApplyResolved(ApplyInstr(ls, ops[1]), Tail(ops))

\* C8: an operation whose anchor no line of the current buffer contains
\* changes nothing and raises nothing, and the other operations are applied
\* as if it were absent: the buffer and the returned text are those of the
\* list without the unresolved operations, the call does not raise, and a
\* list of well-typed operations prints no warning.
C8_UnresolvedAnchorIsNoOp ==
    /\ pc # "raised"
    /\ Ran =>
        /\ lines = ApplyResolved(Buffer, instructions)
        /\ pc = "done" => result = SaveLines(lines)
        /\ (\A k \in 1..Len(instructions) : ~BadOperation(instructions[k]))
               => warnings = 0

C8_Witness ==
    /\ pc = "done"
    /\ Len(instructions) = 2
    /\ Unresolved(Buffer, instructions[1])
    /\ ~BadOperation(instructions[1])
    /\ ~Unresolved(Buffer, instructions[2])
    /\ ~BadOperation(instructions[2])
    /\ lines # Buffer
    /\ warnings = 0

\* apply_edit_instructions_to_content as a function of its arguments: the
\* returned text.
Apply(c, ops) == SaveLines(ApplyAll(LoadLines(c), ops))

\* C18: the list is applied in order, each operation to what the earlier
\* ones produced: for every split of the list in two, the returned text is
\* that of applying the second part to the text returned for the first.
C18_AppliesInListOrder ==
    pc = "done" =>
        \A k \in 0..Len(instructions) :
            result = Apply(Apply(content, SubSeq(instructions, 1, k)),
                           SubSeq(instructions, k + 1, Len(instructions)))

\* ------------------------------------------------------------------ parser

\* A response is a sequence of characters and tags.  Each tag the two regular
\* expressions name is one element: no other text of a response contains a
\* "<", so a tag matches as a whole or not at all.
ModsOpen == "<modifications>"

ModsClose == "</modifications>"

\* <change type="...">: the three types the change pattern accepts, and one
\* it does not.
ChangeTag ==
    [ remove  |-> "<change type=remove>",
      insert  |-> "<change type=insert>",
      replace |-> "<change type=replace>",
      delete  |-> "<change type=delete>" ]

\* (remove|insert|replace)
PatternTypes == {"remove", "insert", "replace"}

\* \s
Whitespace == {" ", NL}

RECURSIVE Strip(_)
\* str.strip()
Strip(s) ==
    IF s = <<>> THEN s
    ELSE IF s[1] \in Whitespace THEN Strip(Tail(s))
    ELSE IF s[Len(s)] \in Whitespace THEN Strip(SubSeq(s, 1, Len(s) - 1))
    ELSE s

RECURSIVE SkipWhitespace(_, _)
\* \s*: the first position from i on that holds no whitespace
SkipWhitespace(s, i) ==
    IF i <= Len(s) /\ s[i] \in Whitespace THEN SkipWhitespace(s, i + 1) ELSE i

\* s has the tag at position i
At(s, i, tag) == i <= Len(s) /\ s[i] = tag

\* A search that matches at the start of the response only (re.match).
ModsStartsAtBeginning(resp) ==
    { i \in {1} :
        /\ Len(resp) >= 1
        /\ resp[1] = ModsOpen
        /\ \E j \in 2..Len(resp) : resp[j] = ModsClose }

\* re.search(r'<modifications>(.*?)</modifications>', response, re.DOTALL):
\* the leftmost opening tag that a closing tag follows, up to the first
\* closing tag after it.
ModsStarts(resp) ==
    { i \in 1..Len(resp) :
        resp[i] = ModsOpen /\ \E j \in (i + 1)..Len(resp) : resp[j] = ModsClose }

ModsGroup(resp) ==
    LET i == CHOOSE k \in ModsStarts(resp) : \A h \in ModsStarts(resp) : k <= h
        j == CHOOSE k \in (i + 1)..Len(resp) :
                 resp[k] = ModsClose /\ \A h \in (i + 1)..(k - 1) : resp[h] # ModsClose
    IN  SubSeq(resp, i + 1, j - 1)

\* </content>\s*</change> at f
ContentEndsAt(s, f) ==
    At(s, f, "</content>") /\ At(s, SkipWhitespace(s, f + 1), "</change>")

\* </text>\s*<content>(.*?)</content>\s*</change> at e
TextEndsAt(s, e) ==
    /\ At(s, e, "</text>")
    /\ LET c == SkipWhitespace(s, e + 1)
       IN  At(s, c, "<content>") /\ \E f \in (c + 1)..Len(s) : ContentEndsAt(s, f)

\* The change pattern matches at p: <change\s+type="(...)">\s*<text>(.*?)...
MatchesAt(s, p) ==
    /\ \E t \in PatternTypes : At(s, p, ChangeTag[t])
    /\ LET t == SkipWhitespace(s, p + 1)
       IN  At(s, t, "<text>") /\ \E e \in (t + 1)..Len(s) : TextEndsAt(s, e)

\* The match at p: the lazy groups end at the first position from which the
\* rest of the pattern matches.
MatchAt(s, p) ==
    LET t == SkipWhitespace(s, p + 1)
        e == CHOOSE k \in (t + 1)..Len(s) :
                 TextEndsAt(s, k) /\ \A h \in (t + 1)..(k - 1) : ~TextEndsAt(s, h)
        c == SkipWhitespace(s, e + 1)
        f == CHOOSE k \in (c + 1)..Len(s) :
                 ContentEndsAt(s, k) /\ \A h \in (c + 1)..(k - 1) : ~ContentEndsAt(s, h)
    IN  [ action  |-> CHOOSE a \in PatternTypes : ChangeTag[a] = s[p],
          text    |-> SubSeq(s, t + 1, e - 1),
          content |-> SubSeq(s, c + 1, f - 1),
          end     |-> SkipWhitespace(s, f + 1) ]

\* re.finditer: the start of the leftmost match at or after pos, 0 when none
NextMatch(s, pos) ==
    LET starts == { p \in pos..Len(s) : MatchesAt(s, p) }
    IN  IF starts = {} THEN 0
        ELSE CHOOSE p \in starts : \A q \in starts : p <= q

\* line.split(': ', 1)[1] if ': ' in line else line
StripLabel(line) ==
    LET seps == { k \in 1..(Len(line) - 1) : line[k] = ":" /\ line[k + 1] = " " }
    IN  IF seps = {} THEN line
        ELSE LET k == CHOOSE i \in seps : \A j \in seps : i <= j
             IN  SubSeq(line, k + 2, Len(line))

\* if action == 'replace' and '\n' in content: strip the label of each line
ContentOf(action, text) ==
    IF action = "replace" /\ \E k \in 1..Len(text) : text[k] = NL
    THEN LET ls == Split(text)
         IN  Join([ k \in 1..Len(ls) |-> StripLabel(ls[k]) ])
    ELSE text

\* A parser that keeps the entries whose text is empty.
NeverSkipped(text) == FALSE

\* if not text: continue
Skipped(text) == text = <<>>

\* The instruction a match yields.
Instruction(m) ==
    [ action  |-> m.action,
      text    |-> Strip(m.text),
      content |-> ContentOf(m.action, Strip(m.content)) ]

RECURSIVE FindAll(_, _)
\* The instructions of the matches of the change pattern in s from pos on.
FindAll(s, pos) ==
    IF NextMatch(s, pos) = 0 THEN <<>>
    ELSE LET m == MatchAt(s, NextMatch(s, pos))
         IN  (IF Skipped(Strip(m.text)) THEN <<>> ELSE << Instruction(m) >>)
             \o FindAll(s, m.end + 1)

\* parse_edit_instructions as a function of the response: how it ends and
\* the list it returns.
ParseOf(resp) ==
    IF ModsStarts(resp) = {}
    THEN [ pc |-> "NoChangesFoundError", instructions |-> <<>> ]
    ELSE LET found == FindAll(ModsGroup(resp), 1)
         IN  [ pc |-> IF found = <<>> THEN "NoChangesFoundError" ELSE "returned",
               instructions |-> found ]

\* The change entries a response is written from.  A full entry has a text
\* and a content element, the other shapes lack one of them.
LabelledLines == << "1", ":", " ", "a", NL, "x", ":", " ", "a" >>

EntryForms ==
    { [type |-> "remove",  shape |-> "full",       text |-> << "x" >>,           content |-> <<>>],
      [type |-> "insert",  shape |-> "full",       text |-> << " ", "a", "x" >>, content |-> << "a", NL >>],
      [type |-> "replace", shape |-> "full",       text |-> << "x" >>,           content |-> LabelledLines],
      [type |-> "insert",  shape |-> "full",       text |-> << "x" >>,           content |-> LabelledLines],
      [type |-> "replace", shape |-> "full",       text |-> <<>>,                content |-> << "a" >>],
      [type |-> "remove",  shape |-> "full",       text |-> << " " >>,           content |-> <<>>],
      [type |-> "insert",  shape |-> "no_text",    text |-> <<>>,                content |-> << "a" >>],
      [type |-> "remove",  shape |-> "no_content", text |-> << "x" >>,           content |-> <<>>],
      [type |-> "insert",  shape |-> "no_end_text", text |-> << "a" >>,          content |-> << "x" >>],
      [type |-> "delete",  shape |-> "full",       text |-> << "x" >>,           content |-> <<>>] }

\* An entry as the text generator writes it, one element per line.
Render(e) ==
    << ChangeTag[e.type], NL >>
    \o (IF e.shape = "no_text" THEN <<>>
        ELSE IF e.shape = "no_end_text" THEN << "<text>" >> \o e.text \o << NL >>
        ELSE << "<text>" >> \o e.text \o << "</text>", NL >>)
    \o (IF e.shape = "no_content" THEN <<>>
        ELSE << "<content>" >> \o e.content \o << "</content>" >>)
    \o << "</change>", NL >>

RECURSIVE RenderAll(_)
RenderAll(es) ==
    IF es = <<>> THEN <<>> ELSE Render(es[1]) \o RenderAll(Tail(es))

\* What surrounds the entries: a modifications block, one inside prose (on
\* both sides, before it only, after it only), no block at all, and a block
\* that is never closed.
Wraps == {"block", "prose", "prose_before", "prose_after", "no_block", "unclosed"}

\* The prose before and after the block of a kind.
ProseBefore(kind) ==
    IF kind = "prose" THEN << "a", " " >>
    ELSE IF kind = "prose_before" THEN << "x", ":", NL >>
    ELSE <<>>

ProseAfter(kind) ==
    IF kind = "prose" THEN << NL, "a" >>
    ELSE IF kind = "prose_after" THEN << " ", "a" >>
    ELSE <<>>

Block(body) == << ModsOpen >> \o body \o << ModsClose >>

Wrap(kind, body) ==
    IF kind = "block" THEN << ModsOpen, NL >> \o body \o << ModsClose >>
    ELSE IF kind \in {"prose", "prose_before", "prose_after"}
    THEN ProseBefore(kind) \o Block(body) \o ProseAfter(kind)
    ELSE IF kind = "unclosed" THEN << ModsOpen >> \o body
    ELSE body

RECURSIVE ListsUpTo(_, _)
ListsUpTo(S, n) ==
    IF n = 0 THEN { <<>> }
    ELSE LET shorter == ListsUpTo(S, n - 1)
         IN  shorter \cup { Append(l, x) : l \in shorter, x \in S }

InitParse ==
    /\ pc = "search"
    /\ entries \in ListsUpTo(EntryForms, MaxEntries)
    /\ \E kind \in Wraps : response = Wrap(kind, RenderAll(entries))
    /\ instructions = <<>>
    /\ modifications_content = <<>>
    /\ scan_pos = 0
    /\ content = <<>>
    /\ lines = <<>>
    /\ warnings = 0
    /\ result = None
    /\ DiffIdle
    /\ CmdIdle

\* modifications_match = re.search(...); raise when there is none
SearchModifications ==
    /\ pc = "search"
    /\ IF ModsStarts(response) = {}
       THEN /\ pc' = "NoChangesFoundError"
            /\ UNCHANGED << modifications_content, scan_pos >>
       ELSE /\ pc' = "finditer"
            /\ modifications_content' = ModsGroup(response)
            /\ scan_pos' = 1
    /\ UNCHANGED << instructions, response, entries, applyVars, diffVars, cmdVars >>

\* One iteration of the for loop over re.finditer: the next match either is
\* skipped for its empty text or appends an instruction.
MatchEntry ==
    /\ pc = "finditer"
    /\ NextMatch(modifications_content, scan_pos) # 0
    /\ LET m == MatchAt(modifications_content,
                        NextMatch(modifications_content, scan_pos))
       IN  /\ scan_pos' = m.end + 1
           /\ instructions' = IF Skipped(Strip(m.text)) THEN instructions
                              ELSE Append(instructions, Instruction(m))
    /\ UNCHANGED << pc, response, entries, modifications_content, applyVars, diffVars, cmdVars >>

\* No further match: raise when no instruction was built, else return them.
EndOfMatches ==
    /\ pc = "finditer"
    /\ NextMatch(modifications_content, scan_pos) = 0
    /\ pc' = IF instructions = <<>> THEN "NoChangesFoundError" ELSE "returned"
    /\ UNCHANGED << instructions, parseVars, applyVars, diffVars, cmdVars >>

NextParse ==
    \/ SearchModifications
    \/ MatchEntry
    \/ EndOfMatches

SpecParse == InitParse /\ [][NextParse]_vars

\* ------------------------------------------------------------------ claims: parser

Parsed == pc \in {"returned", "NoChangesFoundError"}

\* The response holds a <modifications>...</modifications> block.
HasBlock ==
    \E i, j \in 1..Len(response) :
        i < j /\ response[i] = ModsOpen /\ response[j] = ModsClose

\* A change entry of the required shape: a type the protocol knows, a text
\* element with a non-empty anchor, and a content element.
ValidEntry(e) ==
    /\ e.type \in PatternTypes
    /\ e.shape = "full"
    /\ Strip(e.text) # <<>>

\* An entry that is malformed only in that its anchor text is missing or empty.
AnchorlessEntry(e) ==
    /\ e.type \in PatternTypes
    /\ \/ e.shape = "no_text"
       \/ e.shape = "full" /\ Strip(e.text) = <<>>

\* The operation a valid entry stands for.
OperationOf(e) ==
    [ action  |-> e.type,
      text    |-> Strip(e.text),
      content |-> ContentOf(e.type, Strip(e.content)) ]

\* C9: the parser raises NoChangesFoundError exactly when the response holds
\* no modifications block or the block holds no valid change entry; with at
\* least one valid entry it returns a non-empty list.
C9_RaisesIffNoValidEntry ==
    Parsed =>
        /\ pc = "NoChangesFoundError" <=>
               (~HasBlock \/ \A k \in 1..Len(entries) : ~ValidEntry(entries[k]))
        /\ pc = "returned" => instructions # <<>>

\* C10: when the entries of a block are valid ones and ones whose anchor text
\* is missing or empty, the parser does not fail and returns the operations
\* of exactly the valid entries, in their textual order.
C10_AnchorlessEntriesSkipped ==
    ( /\ Parsed
      /\ HasBlock
      /\ Len(entries) >= 2
      /\ \A k \in 1..Len(entries) :
             ValidEntry(entries[k]) \/ AnchorlessEntry(entries[k])
      /\ \E k \in 1..Len(entries) : ValidEntry(entries[k])
      /\ \E k \in 1..Len(entries) : AnchorlessEntry(entries[k]) ) =>
        LET valid == SelectSeq(entries, ValidEntry)
        IN  /\ pc = "returned"
            /\ instructions = [ k \in 1..Len(valid) |-> OperationOf(valid[k]) ]

C10_Witness ==
    /\ pc = "returned"
    /\ HasBlock
    /\ Len(entries) = 3
    /\ ValidEntry(entries[1])
    /\ AnchorlessEntry(entries[2])
    /\ entries[2].shape = "no_text"
    /\ ValidEntry(entries[3])
    /\ entries[1] # entries[3]
    /\ Len(instructions) = 2
    /\ instructions[2].action = entries[3].type

\* C11: prose around the instruction block does not change the parse: the
\* outcome for prose, block, prose is the outcome for the block alone,
\* whether that is a list of operations or NoChangesFoundError.
C11_ProseIgnored ==
    Parsed =>
        \A kind \in {"prose", "prose_before", "prose_after"} :
            response = Wrap(kind, RenderAll(entries)) =>
                [ pc |-> pc, instructions |-> instructions ]
                    = ParseOf(Block(RenderAll(entries)))

C11_Witness ==
    /\ pc = "returned"
    /\ response = Wrap("prose", RenderAll(entries))
    /\ response[1] = "a"
    /\ response[Len(response)] = "a"
    /\ Len(instructions) = 2
    /\ instructions[1] # instructions[2]

\* A line without its line-number label: digits, a colon and a space at
\* its start.
Digits == {"0", "1", "2", "3", "4", "5", "6", "7", "8", "9"}

StripNumberLabel(line) ==
    LET ends == { k \in 2..(Len(line) - 1) :
                     /\ line[k] = ":" /\ line[k + 1] = " "
                     /\ \A h \in 1..(k - 1) : line[h] \in Digits }
    IN  IF ends = {} THEN line
        ELSE LET k == CHOOSE i \in ends : TRUE
             IN  SubSeq(line, k + 2, Len(line))

\* C19: of a replace entry whose content has several lines, a line with a
\* line-number label loses the label and nothing else, and a line without
\* one (such as "x: a") is kept as it is.  Stated for a response of one
\* entry.
C19_OnlyNumberLabelsStripped ==
    /\ pc = "returned"
    /\ Len(entries) = 1
    /\ entries[1].type = "replace"
    /\ entries[1].shape = "full"
    /\ \E k \in 1..Len(Strip(entries[1].content)) : Strip(entries[1].content)[k] = NL
    =>
        LET ls == Split(Strip(entries[1].content))
        IN  /\ Len(instructions) = 1
            /\ instructions[1].content
                   = Join([ k \in 1..Len(ls) |-> StripNumberLabel(ls[k]) ])

\* C22: every operation the parser returns has a non-empty anchor and takes
\* its type, anchor and content from one entry of the response, an entry
\* with a text and a content element; an entry without content element or
\* without closing text tag yields no operation, alone or together with a
\* later entry.
C22_OperationFromOneEntry ==
    pc = "returned" =>
        \A k \in 1..Len(instructions) :
            /\ instructions[k].text # <<>>
            /\ \E j \in 1..Len(entries) :
                   /\ entries[j].shape = "full"
                   /\ instructions[k] = OperationOf(entries[j])

\* ------------------------------------------------------------------ line-numbered operations

\* The structured-list protocol: each element of the array names an action,
\* a 1-based line and, for insert and replace, a content.  The buffers are
\* the first lines of a file whose lines are all different.
LineNames == << "a", "b", "c", "d", "e" >>

NumberedBuffers ==
    { [ k \in 1..n |-> << LineNames[k] >> ] : n \in 1..Min(MaxLines, Len(LineNames)) }

NewLine == << "X" >>

LineOps ==
    { [action |-> a, line |-> n, content |-> NewLine] :
        a \in {"insert", "replace"}, n \in 0..(MaxLines + 1) }
    \cup { [action |-> "delete", line |-> n] : n \in 0..(MaxLines + 1) }

RECURSIVE SortedDescending(_)
\* A sort by descending line number.
SortedDescending(ops) ==
    IF ops = <<>> THEN <<>>
    ELSE LET k == CHOOSE i \in 1..Len(ops) :
                      /\ \A j \in 1..Len(ops) : ops[i].line >= ops[j].line
                      /\ \A j \in 1..(i - 1) : ops[j].line # ops[i].line
         IN  << ops[k] >>
             \o SortedDescending(SubSeq(ops, 1, k - 1) \o SubSeq(ops, k + 1, Len(ops)))

RECURSIVE SortedByLine(_)
\* The operations in ascending order of their line; equal lines keep their
\* order.
SortedByLine(ops) ==
    IF ops = <<>> THEN <<>>
    ELSE LET k == CHOOSE i \in 1..Len(ops) :
                      /\ \A j \in 1..Len(ops) : ops[i].line <= ops[j].line
                      /\ \A j \in 1..(i - 1) : ops[j].line # ops[i].line
         IN  << ops[k] >>
             \o SortedByLine(SubSeq(ops, 1, k - 1) \o SubSeq(ops, k + 1, Len(ops)))

\* The 0-based target index of a 1-based line, clamped into [0, len(lines)].
TargetIndex(ls, op) == Max(0, Min(op.line - 1, Len(ls)))

\* One line-numbered operation on the buffer ls: insert puts the content as
\* a new line at the index, replace overwrites and delete removes the line at
\* the index if there is one.
ApplyLineOp(ls, op) ==
    LET i == TargetIndex(ls, op)
    IN  IF op.action = "insert"
        THEN SubSeq(ls, 1, i) \o << op.content >> \o SubSeq(ls, i + 1, Len(ls))
        ELSE IF i >= Len(ls) THEN ls
        ELSE IF op.action = "replace" THEN [ ls EXCEPT ![i + 1] = op.content ]
        ELSE SubSeq(ls, 1, i) \o SubSeq(ls, i + 2, Len(ls))

InitLines ==
    /\ pc = "structured"
    /\ content \in { Join(b) : b \in NumberedBuffers }
    /\ entries \in ListsUpTo(LineOps, MaxOps)
    /\ instructions = <<>>
    /\ lines = <<>>
    /\ warnings = 0
    /\ result = None
    /\ DiffIdle
    /\ CmdIdle
    /\ response = <<>>
    /\ modifications_content = <<>>
    /\ scan_pos = 0

\* The buffer is loaded and the operations are sorted by line.
SortOperations ==
    /\ pc = "structured"
    /\ pc' = "numbered"
    /\ lines' = LoadLines(content)
    /\ instructions' = SortedByLine(entries)
    /\ UNCHANGED << content, warnings, result, parseVars, diffVars, cmdVars >>

\* The next operation in sorted order acts on the buffer as it is now.
ApplyNumbered ==
    /\ pc = "numbered"
    /\ instructions # <<>>
    /\ lines' = ApplyLineOp(lines, Head(instructions))
    /\ instructions' = Tail(instructions)
    /\ UNCHANGED << pc, content, warnings, result, parseVars, diffVars, cmdVars >>

ReturnNumbered ==
    /\ pc = "numbered"
    /\ instructions = <<>>
    /\ pc' = "numbered_done"
    /\ result' = SaveLines(lines)
    /\ UNCHANGED << content, instructions, lines, warnings, parseVars, diffVars, cmdVars >>

NextLines ==
    \/ SortOperations
    \/ ApplyNumbered
    \/ ReturnNumbered

SpecLines == InitLines /\ [][NextLines]_vars

\* ------------------------------------------------------------------ claims: line-numbered operations

InsertAt(i) == [action |-> "insert", line |-> i, content |-> NewLine]

DeleteAt(j) == [action |-> "delete", line |-> j]

context_lines == 3

\* Number of lines in the short texts the diff is run on.
MaxDiffLines == 3

\* Unchanged lines on each side of the changed line in the long texts.
UnchangedEachSide == 10

RECURSIVE SplitLines(_)
\* text.splitlines(), for texts whose only line boundary is '\n'
SplitLines(s) ==
    IF s = <<>> THEN <<>>
    ELSE IF \A k \in 1..Len(s) : s[k] # NL THEN << s >>
    ELSE LET k == CHOOSE k \in 1..Len(s) :
                      s[k] = NL /\ \A h \in 1..(k - 1) : s[h] # NL
         IN  << SubSeq(s, 1, k - 1) >> \o SplitLines(SubSeq(s, k + 1, Len(s)))

RECURSIVE MatchLen(_, _, _, _, _, _)
\* Length of the block of equal elements starting at a[i], b[j] and staying
\* below ahi, bhi (indices from 0, as in Python).
MatchLen(a, b, i, j, ahi, bhi) ==
    IF i < ahi /\ j < bhi /\ a[i + 1] = b[j + 1]
    THEN 1 + MatchLen(a, b, i + 1, j + 1, ahi, bhi)
    ELSE 0

\* A matcher that finds no block at all.
NoLongestMatch(a, b, alo, ahi, blo, bhi) == [ a |-> alo, b |-> blo, size |-> 0 ]

\* SequenceMatcher.find_longest_match without junk: the longest block in
\* a[alo:ahi], b[blo:bhi]; of the longest, the one starting earliest in a,
\* and of those the one starting earliest in b; (alo, blo, 0) when none.
LongestMatch(a, b, alo, ahi, blo, bhi) ==
    LET starts == (alo..(ahi - 1)) \X (blo..(bhi - 1))
        size(c) == MatchLen(a, b, c[1], c[2], ahi, bhi)
        longest == { c \in starts :
                        /\ size(c) > 0
                        /\ \A d \in starts : size(d) <= size(c) }
    IN  IF longest = {} THEN [ a |-> alo, b |-> blo, size |-> 0 ]
        ELSE LET c == CHOOSE c \in longest :
                          \A d \in longest :
                              \/ c[1] < d[1]
                              \/ c[1] = d[1] /\ c[2] <= d[2]
             IN  [ a |-> c[1], b |-> c[2], size |-> size(c) ]

RECURSIVE MatchingBlocks(_, _, _, _, _, _)
\* The blocks get_matching_blocks collects, in sorted order: the longest
\* match, then the same to its left and to its right.
MatchingBlocks(a, b, alo, ahi, blo, bhi) ==
    LET m == LongestMatch(a, b, alo, ahi, blo, bhi)
    IN  IF m.size = 0 THEN <<>>
        ELSE (IF alo < m.a /\ blo < m.b
              THEN MatchingBlocks(a, b, alo, m.a, blo, m.b)
              ELSE <<>>)
             \o << m >>
             \o (IF m.a + m.size < ahi /\ m.b + m.size < bhi
                 THEN MatchingBlocks(a, b, m.a + m.size, ahi, m.b + m.size, bhi)
                 ELSE <<>>)

RECURSIVE Collapse(_, _)
\* get_matching_blocks: adjacent blocks are merged into one.
Collapse(blocks, cur) ==
    IF blocks = <<>> THEN (IF cur.size > 0 THEN << cur >> ELSE <<>>)
    ELSE LET n == blocks[1]
         IN  IF cur.a + cur.size = n.a /\ cur.b + cur.size = n.b
             THEN Collapse(Tail(blocks), [ cur EXCEPT !.size = @ + n.size ])
             ELSE (IF cur.size > 0 THEN << cur >> ELSE <<>>)
                  \o Collapse(Tail(blocks), n)

\* SequenceMatcher(None, a, b).get_matching_blocks(), ending with the
\* block (len(a), len(b), 0)
GetMatchingBlocks(a, b) ==
    Collapse(MatchingBlocks(a, b, 0, Len(a), 0, Len(b)),
             [ a |-> 0, b |-> 0, size |-> 0 ])
    \o << [ a |-> Len(a), b |-> Len(b), size |-> 0 ] >>

RECURSIVE Opcodes(_, _, _)
Opcodes(blocks, i, j) ==
    IF blocks = <<>> THEN <<>>
    ELSE LET m == blocks[1]
             tag == IF i < m.a /\ j < m.b THEN "replace"
                    ELSE IF i < m.a THEN "delete"
                    ELSE IF j < m.b THEN "insert"
                    ELSE ""
         IN  (IF tag # ""
              THEN << [ tag |-> tag, i1 |-> i, i2 |-> m.a, j1 |-> j, j2 |-> m.b ] >>
              ELSE <<>>)
             \o (IF m.size > 0
                 THEN << [ tag |-> "equal", i1 |-> m.a, i2 |-> m.a + m.size,
                           j1 |-> m.b, j2 |-> m.b + m.size ] >>
                 ELSE <<>>)
             \o Opcodes(Tail(blocks), m.a + m.size, m.b + m.size)

\* difflib.SequenceMatcher(None, lines1, lines2).get_opcodes()
GetOpcodes(a, b) == Opcodes(GetMatchingBlocks(a, b), 0, 0)

\* One change record: (line_number, line1, line2, is_different)
Record(n, old, new, different) ==
    [ line_number |-> n, old_text |-> old, new_text |-> new,
      is_different |-> different ]

Ellipsis == Record(-1, << ".", ".", "." >>, << ".", ".", "." >>, FALSE)

\* len(range(lo, hi))
RangeLen(lo, hi) == Max(hi - lo, 0)

\* The records added before the rows of an opcode: an ellipsis for a gap
\* larger than the context, then the context lines.
ContextBefore(lines1, op, last) ==
    IF op.i1 > last + 1
    THEN (IF op.i1 > last + context_lines + 2 THEN << Ellipsis >> ELSE <<>>)
         \o LET start == Max(last + 1, op.i1 - context_lines)
                row(i) == Record(i + 1, lines1[i + 1], lines1[i + 1], FALSE)
            IN  [ k \in 1..RangeLen(start, op.i1) |-> row(start + k - 1) ]
    ELSE <<>>

\* The rows of a replace span: the longer side decides their number, the
\* shorter side is filled with empty text.
ReplaceRows(lines1, lines2, op) ==
    LET row(k) == Record(op.i1 + k + 1,
                         IF op.i1 + k < op.i2 THEN lines1[op.i1 + k + 1] ELSE <<>>,
                         IF op.j1 + k < op.j2 THEN lines2[op.j1 + k + 1] ELSE <<>>,
                         TRUE)
    IN  [ k \in 1..RangeLen(0, Max(op.i2 - op.i1, op.j2 - op.j1)) |-> row(k - 1) ]

DeleteRows(lines1, op) ==
    LET row(i) == Record(i + 1, lines1[i + 1], <<>>, TRUE)
    IN  [ k \in 1..RangeLen(op.i1, op.i2) |-> row(op.i1 + k - 1) ]

\* One row for each inserted line, all numbered from the span's place in
\* the before text.
InsertRowsNumberedByAfterLine(lines2, op) ==
    LET row(j) == Record(j + 1, <<>>, lines2[j + 1], TRUE)
    IN  [ k \in 1..RangeLen(op.j1, op.j2) |-> row(op.j1 + k - 1) ]

InsertRows(lines2, op) ==
    LET row(j) == Record(op.i1 + 1, <<>>, lines2[j + 1], TRUE)
    IN  [ k \in 1..RangeLen(op.j1, op.j2) |-> row(op.j1 + k - 1) ]

\* Whether an equal span adds rows: the last record so far is a change.
AfterChange(records) ==
    Len(records) > 0 /\ records[Len(records)].is_different

\* The first index of an equal span at which lines2[i] does not exist, or
\* -1: the span's rows read lines2 at the before-side index.
IndexErrorAt(lines2, op) ==
    LET hi  == Min(op.i1 + context_lines, op.i2)
        bad == { i \in op.i1..(hi - 1) : i >= Len(lines2) }
    IN  IF bad = {} THEN -1
        ELSE CHOOSE i \in bad : \A h \in bad : i <= h

\* The context rows of an equal span, up to index hi.
EqualRows(lines1, lines2, op, hi) ==
    LET row(i) == Record(i + 1, lines1[i + 1], lines2[i + 1], FALSE)
    IN  [ k \in 1..RangeLen(op.i1, hi) |-> row(op.i1 + k - 1) ]

\* The texts the diff is run on: short texts of a few lines, with and
\* without a final newline, and long texts that differ at one line with
\* unchanged lines on each side (all alike, or all distinct).
DiffLines == { << "a" >>, << "x" >>, <<>> }

DiffTexts ==
    LET ls == ListsUpTo(DiffLines, MaxDiffLines)
    IN  { Join(l) : l \in ls } \cup { Join(l) \o << NL >> : l \in ls }

Alike(n) == [ k \in 1..n |-> << "a" >> ]

Distinct(from, n) == [ k \in 1..n |-> [ t \in 1..(from + k - 1) |-> "a" ] ]

LongTexts ==
    LET n == UnchangedEachSide
    IN  { << Join(Alike(n) \o << << "x" >> >> \o Alike(n)),
             Join(Alike(n) \o << << "x", "x" >> >> \o Alike(n)) >>,
          << Join(Distinct(1, n) \o << << "x" >> >> \o Distinct(n + 1, n)),
             Join(Distinct(1, n) \o << << "x", "a" >> >> \o Distinct(n + 1, n)) >>,
          << Join(Distinct(1, n) \o << << "x" >> >> \o Distinct(n + 1, n)),
             Join(Distinct(1, n) \o << << "x" >> >> \o Distinct(n + 1, n)) >> }

InitDiff ==
    /\ pc = "visualize_diff"
    /\ \E pair \in (DiffTexts \X DiffTexts) \cup LongTexts :
           text1 = pair[1] /\ text2 = pair[2]
    /\ opcodes = <<>>
    /\ changes = <<>>
    /\ last_line = -1
    /\ table = <<>>
    /\ diff_count = NotReturned
    /\ CmdIdle
    /\ instructions = <<>>
    /\ content = <<>>
    /\ lines = <<>>
    /\ warnings = 0
    /\ result = None
    /\ response = <<>>
    /\ entries = <<>>
    /\ modifications_content = <<>>
    /\ scan_pos = 0

\* get_changes up to its loop: the texts are split into lines and matched.
GetChanges ==
    /\ pc = "visualize_diff"
    /\ pc' = "get_opcodes"
    /\ opcodes' = GetOpcodes(SplitLines(text1), SplitLines(text2))
    /\ changes' = <<>>
    /\ last_line' = -1
    /\ UNCHANGED << text1, text2, table, diff_count, instructions, applyVars, parseVars, cmdVars >>

\* One pass of the loop over the opcodes.
ForOpcode ==
    /\ pc = "get_opcodes"
    /\ opcodes # <<>>
    /\ LET op     == Head(opcodes)
           lines1 == SplitLines(text1)
           lines2 == SplitLines(text2)
           before == changes \o ContextBefore(lines1, op, last_line)
           hi     == Min(op.i1 + context_lines, op.i2)
       IN  IF op.tag = "equal" /\ AfterChange(before)
              /\ IndexErrorAt(lines2, op) # -1
           THEN /\ pc' = "IndexError"
                /\ changes' = before
                       \o EqualRows(lines1, lines2, op, IndexErrorAt(lines2, op))
                /\ UNCHANGED << opcodes, last_line >>
           ELSE /\ changes' = before \o
                       (IF op.tag = "replace" THEN ReplaceRows(lines1, lines2, op)
                        ELSE IF op.tag = "delete" THEN DeleteRows(lines1, op)
                        ELSE IF op.tag = "insert" THEN InsertRows(lines2, op)
                        ELSE IF AfterChange(before)
                        THEN EqualRows(lines1, lines2, op, hi)
                        ELSE <<>>)
                /\ last_line' = op.i2 - 1
                /\ opcodes' = Tail(opcodes)
                /\ pc' = pc
    /\ UNCHANGED << text1, text2, table, diff_count, instructions, applyVars, parseVars, cmdVars >>

\* return changes
ReturnChanges ==
    /\ pc = "get_opcodes"
    /\ opcodes = <<>>
    /\ pc' = "table"
    /\ UNCHANGED << instructions, applyVars, parseVars, diffVars, cmdVars >>

\* The rows visualize_diff adds to its table for one record.
TableRows(record) ==
    IF record.line_number = -1
    THEN << << << ".", ".", "." >>, << ".", ".", "." >> >> >>
    ELSE IF record.is_different
    THEN IF record.old_text = <<>>
         THEN << << record.line_number, << "+", " " >> \o record.new_text >> >>
         ELSE << << record.line_number, << "-", " " >> \o record.old_text >>,
                 << <<>>, << "+", " " >> \o record.new_text >> >>
    ELSE << << record.line_number, << " ", " " >> \o record.old_text >> >>

RECURSIVE Table(_)
Table(records) ==
    IF records = <<>> THEN <<>>
    ELSE TableRows(records[1]) \o Table(Tail(records))

\* visualize_diff fills and prints the table and ends without a return
\* statement; show_diff returns what visualize_diff returned.
ShowDiff ==
    /\ pc = "table"
    /\ pc' = "diff_shown"
    /\ table' = Table(changes)
    /\ diff_count' = NoneValue
    /\ UNCHANGED << text1, text2, opcodes, changes, last_line, instructions,
                    applyVars, parseVars, cmdVars >>

NextDiff ==
    \/ GetChanges
    \/ ForOpcode
    \/ ReturnChanges
    \/ ShowDiff

SpecDiff == InitDiff /\ [][NextDiff]_vars

\* ------------------------------------------------------------------ the diff: claims

\* get_changes has returned its records.
Diffed == pc \in {"table", "diff_shown"}

\* The positions of the records that are changes.
Different(records) == { k \in 1..Len(records) : records[k].is_different }

\* C12: the diff of a text against itself, the empty text included, ends
\* without an error and has no record with is_different true.
C12_SelfDiffHasNoChange ==
    text1 = text2 => pc # "IndexError" /\ Different(changes) = {}

C12_Witness ==
    /\ Diffed
    /\ text1 = text2
    /\ Len(SplitLines(text1)) >= 2
    /\ SplitLines(text1)[1] # SplitLines(text1)[2]
    /\ changes = <<>>

\* The two texts have UnchangedEachSide lines, one line that differs, and
\* UnchangedEachSide lines again.
OneLineDiffers ==
    LET lines1 == SplitLines(text1)
        lines2 == SplitLines(text2)
        n      == UnchangedEachSide
    IN  /\ Len(lines1) = 2 * n + 1
        /\ Len(lines2) = 2 * n + 1
        /\ \A k \in 1..(2 * n + 1) : (lines1[k] = lines2[k]) <=> (k # n + 1)

\* C13: when one inner line differs and UnchangedEachSide (more than
\* context_lines + 1) lines on each side do not, the records hold the
\* changed line, exactly context_lines unchanged lines right before it and
\* exactly context_lines right after it, and exactly one record with
\* line_number -1 for the lines left out.
C13_ContextAroundChange ==
    pc = "table" /\ OneLineDiffers =>
        LET lines1 == SplitLines(text1)
            n      == UnchangedEachSide
            same(i) == Record(i, lines1[i], lines1[i], FALSE)
        IN  \E k \in Different(changes) :
                /\ Different(changes) = {k}
                /\ changes[k].line_number = n + 1
                /\ k > context_lines
                /\ k + context_lines <= Len(changes)
                /\ \A t \in 1..context_lines :
                       /\ changes[k - t] = same(n + 1 - t)
                       /\ changes[k + t] = same(n + 1 + t)
                /\ Cardinality({ i \in 1..Len(changes) :
                                    changes[i].line_number = -1 }) = 1
                /\ Len(changes) = 2 * context_lines + 2

\* A value of Python's int.
IntValue(n) == [ type |-> "int", value |-> n ]

\* C14: the diff step returns to its caller an integer, the number of
\* records with is_different true, and filling the table leaves the
\* records as get_changes returned them.
C14_ReturnsChangeCount ==
    pc = "diff_shown" =>
        diff_count = IntValue(Cardinality(Different(changes)))

\* The loop of get_changes is about to visit an insert span.
AtInsertSpan ==
    pc = "get_opcodes" /\ opcodes # <<>> /\ Head(opcodes).tag = "insert"

\* The records the pass over the insert span has added: one for each
\* inserted line, in order, with empty old text and is_different true, all
\* with line_number n.
InsertRecorded(n) ==
    LET op     == Head(opcodes)
        lines2 == SplitLines(text2)
        count  == op.j2 - op.j1
    IN  /\ Len(changes') = Len(changes) + count
        /\ SubSeq(changes', 1, Len(changes)) = changes
        /\ \A k \in 1..count :
               changes'[Len(changes) + k]
                   = Record(n, <<>>, lines2[op.j1 + k], TRUE)

\* C20 as claimed: the records of an insert span, one for each inserted
\* line, are numbered by the before-side line right before the place of
\* insertion, counting lines from 1.
C20_InsertNumberedByPrecedingLine ==
    [][AtInsertSpan => InsertRecorded(Head(opcodes).i1)]_vars

\* C20 as the code has it: the records of an insert span, one for each
\* inserted line, are numbered by the before-side line right after the
\* place of insertion, counting lines from 1 (the number of before-side
\* lines plus one when the insertion is at the end).
C20_InsertNumberedByFollowingLine ==
    [][AtInsertSpan => InsertRecorded(Head(opcodes).i1 + 1)]_vars

\* An insert span of two lines after the first before-side line has
\* been recorded.
C20_Witness ==
    /\ pc = "table"
    /\ \E k \in 1..(Len(changes) - 1) :
           /\ changes[k].is_different /\ changes[k + 1].is_different
           /\ changes[k].old_text = <<>> /\ changes[k + 1].old_text = <<>>
           /\ changes[k].line_number = 2 /\ changes[k + 1].line_number = 2
    /\ \E op \in { GetOpcodes(SplitLines(text1), SplitLines(text2))[k] :
                       k \in 1..Len(GetOpcodes(SplitLines(text1), SplitLines(text2))) } :
           op.tag = "insert" /\ op.i1 = 1 /\ op.j2 - op.j1 = 2

\* The before and after texts have the same sequence of lines.
SameLines == SplitLines(text1) = SplitLines(text2)

\* C21: the diff of two texts has no record with is_different true exactly
\* when the texts have the same sequence of lines; texts whose lines differ
\* always yield such a record, so get_changes does not end without its
\* records for them.
C21_ZeroCountIffSameLines ==
    /\ Diffed => (Different(changes) = {} <=> SameLines)
    /\ ~SameLines => pc # "IndexError"

\* ------------------------------------------------------------------ the change command

\* The two change commands of the package: cli/change.py, and filepilot.py,
\* which setup.py names as the entry point.
Commands == {"cli/change.py", "filepilot.py"}

\* The entries the text generator answers with, and its answers: a
\* modifications block of at most one entry, or the entry without a block.
ChangeEntries ==
    { e \in EntryForms : e.shape = "full" /\ e.type \in PatternTypes }

ChangeWraps == {"block", "no_block"}

\* filepilot.py calls parse_edit_instructions and
\* apply_edit_instructions_to_content with a verbose keyword, which the
\* methods of changemanager.py do not take: the ChangeManager it was written
\* for is not part of the sources.  These are the parser and the applier of
\* the tagged-block syntax as the specification describes them.
ParseVerbose(resp) == ParseOf(resp)

ApplyVerbose(c, ops) == Apply(c, ops)

\* What an except branch of the command prints before it raises
\* typer.Exit(1).
ErrorReport == << "Error in change command:", "traceback" >>

\* typer.Exit is click's Exit, a RuntimeError: raised inside the outer try
\* it is caught by the outer "except Exception", which prints its report
\* and raises typer.Exit(1), whatever the status of the Exit it caught.
OuterExcept(printed) == printed \o ErrorReport

\* A prompt whose answer is not looked at.
ConfirmedAnyway(reply) == TRUE

\* if Confirm.ask("Do you want to apply these changes?")
Confirmed(reply) == reply

InitChange ==
    /\ pc = "change"
    /\ command \in Commands
    /\ diff \in BOOLEAN
    /\ original_file \in Contents
    /\ entries \in ListsUpTo(ChangeEntries, 1)
    /\ \E kind \in ChangeWraps : response = Wrap(kind, RenderAll(entries))
    /\ preview_file = None
    /\ console = <<>>
    /\ answer = "not_asked"
    /\ copied = FALSE
    /\ exit_status = -1
    /\ DiffIdle
    /\ instructions = <<>>
    /\ content = <<>>
    /\ lines = <<>>
    /\ warnings = 0
    /\ result = None
    /\ modifications_content = <<>>
    /\ scan_pos = 0

\* The file is read and the text generator is asked; filepilot.py first
\* creates the preview file, a copy of the original.
RequestChanges ==
    /\ pc = "change"
    /\ pc' = "parse"
    /\ content' = original_file
    /\ preview_file' = IF command = "filepilot.py" THEN original_file ELSE None
    /\ UNCHANGED << instructions, lines, warnings, result, parseVars, diffVars,
                    command, diff, original_file, console, answer, copied,
                    exit_status >>

\* The response is parsed, the instructions are applied to the content and
\* the result is written to the preview file; then show_diff is called.
\* A NoChangesFoundError of the parser goes to "except Exception" in
\* cli/change.py and to "except NoChangesFoundError" in filepilot.py, whose
\* typer.Exit(0) passes the finally block and reaches the outer except.
ParseAndApply ==
    /\ pc = "parse"
    /\ LET parsed == IF command = "filepilot.py" THEN ParseVerbose(response)
                     ELSE ParseOf(response)
           modified_content ==
                     IF command = "filepilot.py"
                     THEN ApplyVerbose(content, parsed.instructions)
                     ELSE Apply(content, parsed.instructions)
       IN  IF parsed.pc = "NoChangesFoundError"
           THEN /\ pc' = "exited"
                /\ console' = IF command = "filepilot.py"
                              THEN OuterExcept(Append(console, "No changes needed"))
                              ELSE OuterExcept(console \o ErrorReport)
                /\ preview_file' = None
                /\ exit_status' = 1
                /\ UNCHANGED << instructions, result, diffVars >>
           ELSE /\ pc' = "visualize_diff"
                /\ instructions' = parsed.instructions
                /\ result' = modified_content
                /\ preview_file' = modified_content
                /\ text1' = original_file
                /\ text2' = modified_content
                /\ UNCHANGED << opcodes, changes, last_line, table, diff_count,
                                console, exit_status >>
    /\ UNCHANGED << content, lines, warnings, parseVars, command, diff,
                    original_file, answer, copied >>

\* An IndexError of get_changes leaves show_diff: the preview is removed
\* and both except branches print their report.
DiffRaised ==
    /\ pc = "IndexError"
    /\ pc' = "exited"
    /\ console' = OuterExcept(console \o ErrorReport)
    /\ preview_file' = None
    /\ exit_status' = 1
    /\ UNCHANGED << instructions, applyVars, parseVars, diffVars, command, diff,
                    original_file, answer, copied >>

\* After show_diff.  cli/change.py compares what it returned with 0, a
\* TypeError when that is None, and calls apply_changes for a count above 0
\* and without --diff; filepilot.py does not look at it and calls
\* apply_changes without --diff.
AfterDiff ==
    /\ pc = "diff_shown"
    /\ IF command = "cli/change.py" /\ diff_count.type # "int"
       THEN /\ pc' = "exited"
            /\ console' = OuterExcept(console \o ErrorReport)
            /\ preview_file' = None
            /\ exit_status' = 1
       ELSE IF command = "cli/change.py" /\ diff_count.value <= 0
       THEN /\ pc' = "exited"
            /\ console' = Append(console, "No changes needed")
            /\ preview_file' = None
            /\ exit_status' = 0
       ELSE IF diff
       THEN /\ pc' = "exited"
            /\ preview_file' = None
            /\ exit_status' = 0
            /\ UNCHANGED console
       ELSE /\ pc' = "apply_changes"
            /\ UNCHANGED << console, preview_file, exit_status >>
    /\ UNCHANGED << instructions, applyVars, parseVars, diffVars, command, diff,
                    original_file, answer, copied >>

\* apply_changes: the user is asked, and on yes the preview is copied over
\* the original; then the preview is removed and the command ends.
ApplyChanges ==
    /\ pc = "apply_changes"
    /\ \E reply \in BOOLEAN :
           /\ answer' = IF reply THEN "yes" ELSE "no"
           /\ copied' = Confirmed(reply)
           /\ original_file' = IF Confirmed(reply) THEN preview_file
                               ELSE original_file
           /\ console' = Append(console, IF Confirmed(reply)
                                         THEN "Changes applied"
                                         ELSE "Changes discarded")
    /\ pc' = "exited"
    /\ preview_file' = None
    /\ exit_status' = 0
    /\ UNCHANGED << instructions, applyVars, parseVars, diffVars, command, diff >>

NextChange ==
    \/ RequestChanges
    \/ ParseAndApply
    \/ GetChanges
    \/ ForOpcode
    \/ ReturnChanges
    \/ ShowDiff
    \/ DiffRaised
    \/ AfterDiff
    \/ ApplyChanges

SpecChange == InitChange /\ [][NextChange]_vars

\* ------------------------------------------------------------------ the change command: claims

Printed(message) == \E k \in 1..Len(console) : console[k] = message

C16_PromptIffChanges ==
    pc = "exited" /\ diff_count # NotReturned =>
        LET count == Cardinality(Different(changes))
        IN  /\ answer # "not_asked" <=> (count # 0 /\ ~diff)
            /\ count = 0 =>
                   Printed("No changes needed") /\ answer = "not_asked"

\* C17: when the parser raises NoChangesFoundError the command prints that
\* no changes are needed, prints no error and no traceback, ends with exit
\* status 0 and leaves the original file as it was.
C17_NoChangesIsNotAnError ==
    pc = "exited" /\ ParseOf(response).pc = "NoChangesFoundError" =>
        /\ Printed("No changes needed")
        /\ ~Printed("Error in change command:")
        /\ ~Printed("traceback")
        /\ exit_status = 0
        /\ ~copied
        /\ original_file = content

====
